---- MODULE Spec2Model ----
(***************************************************************************)
(* Persistence layer of the persistent cookie jar (serialize.go).          *)
(*                                                                         *)
(* Several processes, each with its own in-memory Jar, call save and load  *)
(* on one cookie file.  Every call is modelled step by step: lockFile's    *)
(* retry loop, the file open, j.mu, mergeFrom, deleteExpired, Truncate,    *)
(* Seek, writeTo and the deferred Unlock / Close / Release.                *)
(***************************************************************************)
EXTENDS Integers, Sequences, FiniteSets, TLC

(***************************************************************************)
(* Bounds of the model.                                                    *)
(***************************************************************************)
MaxOps == 2      \* calls (save, load, SetCookies) started in one behaviour
MaxNow == 2      \* save(now) is called with now in 1..MaxNow
MaxLatency == 1  \* ticks a call may take beyond the time it asks for
MaxCalls == 3    \* lockNameFromPath is called at most MaxCalls times on a path

(***************************************************************************)
(* Program constants.                                                      *)
(***************************************************************************)
\* Durations are counted in ticks of 100 microseconds.
maxRetryDuration == 20000    \* const maxRetryDuration = 2 * time.Second
initialRetry == 1            \* retry := 100 * time.Microsecond

None == "none"

(***************************************************************************)
(* Processes and their goroutines.  p1 runs two goroutines on one Jar, p2  *)
(* runs one goroutine on another Jar.                                      *)
(***************************************************************************)
Procs == {"p1", "p2"}
Threads == {"t1", "t2", "t3"}
ProcOf(t) == IF t = "t3" THEN "p2" ELSE "p1"

(***************************************************************************)
(* Paths are sequences of characters.  The empty path is the one that      *)
(* lockNameFromPath rejects.                                               *)
(***************************************************************************)
EmptyPath == << >>
JarPath == <<"/", "c">>
Paths == {EmptyPath, JarPath}

AlphaNum ==
    {"a","b","c","d","e","f","g","h","i","j","k","l","m","n","o","p","q","r",
     "s","t","u","v","w","x","y","z","A","B","C","D","E","F","G","H","I","J",
     "K","L","M","N","O","P","Q","R","S","T","U","V","W","X","Y","Z","0","1",
     "2","3","4","5","6","7","8","9"}

\* The paths a lock name is derived from.  A path is a sequence of bytes, as a
\* Go string is; a byte of a multi-byte character is written as its two
\* hexadecimal digits (C3 A9 is e with an acute accent).
NamePaths ==
    {<< >>,
     <<"/","c">>,
     <<"a">>,
     <<"L">>,
     <<"9">>,
     <<"/">>,
     <<"-">>,
     <<"C3","A9">>,
     <<"c","o","o","k","i","e","s">>,
     <<"/","t","m","p","/","j","a","r">>,
     <<"j","a","r",".","j","s","o","n">>,
     <<"0","1","2","3","4","5","6","7","8","9">>,
     <<"0","1","2","3","4","5","6","7","8","9","a">>,
     <<"/","h","o","m","e","/","u","/",".","c","o","o","k","i","e","s">>,
     <<"a","/","b","/","c","/","d","/","e","/","f","/","g">>,
     <<"/","v","a","r","/","l","i","b","/","a","p","p","/","c","o","o","k",
       "i","e",".","j","a","r">>,
     <<"~","/",".","g","o","-","c","o","o","k","i","e","s">>,
     <<"/","a","/","b">>,
     <<"x"," ","y">>,
     <<".",".",".",".",".",".",".",".",".",".">>,
     <<"-","-","-","-","-","-","-","-","-","-">>,
     <<"-","-","-","-","-","-","-","-","-","-","-">>,
     <<"/","x","/","0","1","2","3","4","5","6","7","8","9">>,
     <<"/","y","/","0","1","2","3","4","5","6","7","8","9">>,
     <<"a","b","c","C3","A9","C3","A9","C3","A9","C3","A9","C3","A9">>,
     <<"C3","A9","C3","A9","C3","A9","C3","A9","C3","A9">>,
     <<"C3","A9","C3","A9","C3","A9","C3","A9","C3","A9","a">>,
     <<"/","t","m","p","/","C3","A9","t","C3","A9","/","c","o","o","k","i",
       "e","s">>,
     <<"c","o","o","k","i","e","-","j","a","r">>,
     <<"c","o","o","k","i","e","_","j","a","r",".","d","b">>}

\* base64.URLEncoding of sha256(path), for the paths of the model.
Sha256Base64(path) ==
    CASE path = << >> ->
         <<"4","7","D","E","Q","p","j","8","H","B","S","a","-","_","T","I",
           "m","W","-","5","J","C","e","u","Q","e","R","k","m","5","N","M",
           "p","J","W","Z","G","3","h","S","u","F","U","=">>
      [] path = <<"/","c">> ->
         <<"-","s","1","E","L","v","Y","w","R","U","O","M","O","i","k","Q",
           "4","G","R","F","K","E","c","-","O","v","g","X","Z","I","q","K",
           "B","A","z","n","W","s","v","-","1","N","k","=">>
      [] path = <<"a">> ->
         <<"y","p","e","B","E","s","o","b","v","c","r","6","w","j","G","z",
           "m","i","P","c","T","a","e","G","7","_","g","U","f","E","5","y",
           "u","Y","B","3","h","a","_","u","S","L","s","=">>
      [] path = <<"L">> ->
         <<"c","t","_","P","s","M","R","w","r","C","V","c","3","o","P","7",
           "j","-","O","N","6","K","E","o","G","I","4","D","6","l","u","l",
           "s","q","k","6","2","-","o","Q","Y","v","o","=">>
      [] path = <<"9">> ->
         <<"G","V","g","e","J","9","5","8","7","Q","D","_","H","O","U","L",
           "I","E","f","n","p","W","f","H","a","x","y","6","6","6","v","l",
           "7","w","P","3","w","w","F","7","t","b","c","=">>
      [] path = <<"/">> ->
         <<"i","l","7","a","s","o","J","j","J","E","M","h","n","g","U","e",
           "S","t","4","t","H","V","u","8","Z","x","x","4","E","F","G","_",
           "F","D","e","J","f","L","3","-","o","P","E","=">>
      [] path = <<"-">> ->
         <<"O","X","P","g","I","u","k","y","I","P","k","h","L","B","j","Q",
           "0","M","V","D","r","n","w","w","n","k","Z","k","D","a","k","6",
           "S","g","M","U","3","p","m","f","U","R","I","=">>
      [] path = <<"C3","A9">> ->
         <<"S","p","l","V","f","k","A","z","w","1","O","d","4","u","t","l",
           "R","y","A","X","y","t","X","5","V","X","9","6","B","i","W","g",
           "n","x","w","_","b","i","u","m","n","E","w","=">>
      [] path = <<"c","o","o","k","i","e","s">> ->
         <<"L","w","A","w","x","T","U","Z","P","8","F","k","5","O","K","1",
           "N","x","6","O","Z","2","U","Q","z","w","p","k","s","m","i","d",
           "m","r","p","l","M","-","b","d","6","o","I","=">>
      [] path = <<"/","t","m","p","/","j","a","r">> ->
         <<"z","9","K","0","c","Y","U","M","T","E","C","w","L","E","W","W",
           "r","Z","e","v","K","e","_","k","W","Y","q","a","2","y","H","D",
           "F","5","S","R","3","k","G","v","9","c","Q","=">>
      [] path = <<"j","a","r",".","j","s","o","n">> ->
         <<"B","D","r","w","e","l","q","X","F","e","0","G","5","8","-","D",
           "i","6","b","X","D","h","O","E","V","8","g","h","1","6","F","P",
           "j","z","U","T","I","P","K","D","3","P","k","=">>
      [] path = <<"0","1","2","3","4","5","6","7","8","9">> ->
         <<"h","N","i","Y","d","_","D","U","B","B","7","7","a","_","k","a",
           "F","v","A","k","j","y","_","V","c","-","a","v","B","c","G","f",
           "l","r","7","b","n","4","g","v","e","I","I","=">>
      [] path = <<"0","1","2","3","4","5","6","7","8","9","a">> ->
         <<"c","8","7","a","Z","2","e","Q","M","_","R","o","6","B","_","H",
           "C","c","B","_","2","2","v","A","L","g","t","t","9","e","3","z",
           "F","N","r","F","9","P","a","T","G","y","c","=">>
      [] path = <<"/","h","o","m","e","/","u","/",".","c","o","o","k","i",
                  "e","s">> ->
         <<"s","2","G","h","b","s","9","9","L","R","0","j","4","h","i","D",
           "u","E","m","T","e","c","A","c","-","F","3","5","W","q","o","i",
           "2","C","N","_","5","m","I","0","G","J","8","=">>
      [] path = <<"a","/","b","/","c","/","d","/","e","/","f","/","g">> ->
         <<"s","y","M","k","O","R","h","I","5","X","_","E","9","n","P","N",
           "3","c","q","X","N","M","q","F","5","m","P","z","9","b","m","_",
           "b","p","D","6","m","6","M","2","8","O","4","=">>
      [] path = <<"/","v","a","r","/","l","i","b","/","a","p","p","/","c",
                  "o","o","k","i","e",".","j","a","r">> ->
         <<"P","G","3","z","5","b","f","R","L","h","v","b","u","4","-","i",
           "N","x","4","l","s","B","Y","I","q","y","l","n","3","R","T","j",
           "k","r","G","W","e","s","y","D","G","w","c","=">>
      [] path = <<"~","/",".","g","o","-","c","o","o","k","i","e","s">> ->
         <<"b","h","C","4","4","o","9","M","6","T","U","H","-","b","y","J",
           "F","D","J","1","u","X","b","S","x","L","q","m","9","g","T","o",
           "R","t","E","5","m","m","C","7","E","B","I","=">>
      [] path = <<"/","a","/","b">> ->
         <<"Z","i","t","7","Y","q","e","Y","u","y","1","T","5","n","y","t",
           "l","3","j","h","L","k","g","p","f","H","n","q","6","Y","0","6",
           "r","n","G","X","v","o","J","d","d","o","8","=">>
      [] path = <<"x"," ","y">> ->
         <<"i","H","_","O","p","q","g","D","M","8","b","A","K","u","f","n",
           "l","z","X","w","7","a","2","N","g","R","8","L","Y","U","M","U",
           "l","f","e","W","9","L","9","q","f","B","k","=">>
      [] path = <<".",".",".",".",".",".",".",".",".",".">> ->
         <<"U","3","8","_","t","p","u","g","H","8","O","I","o","6","X","J",
           "I","M","S","F","s","o","c","9","X","z","J","z","B","c","P","d",
           "I","A","T","W","o","E","R","R","Z","Z","s","=">>
      [] path = <<"-","-","-","-","-","-","-","-","-","-">> ->
         <<"W","Q","z","L","c","8","i","k","3","i","n","J","Z","M","K","5",
           "l","C","J","2","6","m","k","v","a","b","o","Y","o","4","p","T",
           "7","5","g","e","2","5","H","p","F","t","4","=">>
      [] path = <<"-","-","-","-","-","-","-","-","-","-","-">> ->
         <<"C","V","0","g","-","8","L","g","D","7","Z","h","C","r","g","M",
           "J","K","7","t","A","f","Z","f","F","7","f","-","M","C","X","9",
           "f","V","r","C","1","5","m","B","s","o","k","=">>
      [] path = <<"/","x","/","0","1","2","3","4","5","6","7","8","9">> ->
         <<"7","p","Y","s","X","u","u","w","F","Q","d","z","0","R","5","e",
           "4","a","C","I","t","j","o","6","I","I","0","H","u","i","2","Z",
           "V","W","V","O","5","c","p","r","_","E","M","=">>
      [] path = <<"/","y","/","0","1","2","3","4","5","6","7","8","9">> ->
         <<"7","p","X","g","A","b","K","h","8","l","A","h","S","O","R","1",
           "Z","z","T","m","1","K","O","V","t","s","A","B","E","f","W","A",
           "k","4","S","e","z","U","w","_","L","y","A","=">>
      [] path = <<"a","b","c","C3","A9","C3","A9","C3","A9","C3","A9","C3",
                  "A9">> ->
         <<"4","0","4","k","k","r","z","w","B","n","e","0","g","t","6","b",
           "I","c","I","x","v","b","h","z","n","K","a","E","M","g","c","p",
           "X","v","e","0","Y","a","m","P","b","s","E","=">>
      [] path = <<"C3","A9","C3","A9","C3","A9","C3","A9","C3","A9">> ->
         <<"l","R","b","8","i","e","q","_","d","N","a","7","A","M","S","Q",
           "W","d","O","V","c","K","P","L","k","f","7","y","X","O","4","j",
           "4","k","3","2","I","_","X","z","u","B","M","=">>
      [] path = <<"C3","A9","C3","A9","C3","A9","C3","A9","C3","A9","a">> ->
         <<"W","K","u","t","s","D","s","l","4","j","8","8","o","d","T","n",
           "C","H","d","A","H","j","z","e","5","V","A","b","4","l","B","C",
           "Z","Y","B","i","O","X","s","9","W","t","s","=">>
      [] path = <<"/","t","m","p","/","C3","A9","t","C3","A9","/","c","o",
                  "o","k","i","e","s">> ->
         <<"L","c","v","Y","N","J","T","B","7","l","r","8","3","j","J","Z",
           "_","4","E","C","B","4","c","B","z","a","_","V","F","i","C","F",
           "4","o","H","2","7","E","O","s","a","o","8","=">>
      [] path = <<"c","o","o","k","i","e","-","j","a","r">> ->
         <<"H","1","t","R","X","E","e","l","7","l","x","H","A","h","Q","v",
           "O","P","6","V","H","C","4","k","W","6","S","m","i","C","D","l",
           "x","E","h","1","e","Y","Y","e","S","v","A","=">>
      [] path = <<"c","o","o","k","i","e","_","j","a","r",".","d","b">> ->
         <<"H","G","x","0","m","N","5","r","f","2","K","T","b","2","r","S",
           "u","_","O","E","T","e","N","b","o","g","M","z","i","o","u","S",
           "-","5","G","k","d","r","y","i","J","u","k","=">>

\* re.ReplaceAllLiteralString(s, ``) with re = [^a-z0-9A-Z]*
RECURSIVE re(_)
re(s) ==
    IF s = << >> THEN << >>
    ELSE IF Head(s) \in AlphaNum THEN <<Head(s)>> \o re(Tail(s))
    ELSE re(Tail(s))

\* lockNameFromPath without the removal of the characters that re matches.
lockNameFromPath_raw(path) ==
    IF path = EmptyPath
    THEN [name |-> << >>, err |-> "invalid"]
    ELSE LET sha == Sha256Base64(path)
             tail == IF Len(path) > 10
                     THEN SubSeq(path, Len(path) - 10 + 1, Len(path))
                     ELSE path
         IN  [name |-> <<"L">> \o SubSeq(sha, 1, 29) \o tail,
              err |-> None]

lockNameFromPath(path) ==
    IF path = EmptyPath
    THEN [name |-> << >>, err |-> "invalid"]
    ELSE LET sha == Sha256Base64(path)
             tail == IF Len(path) > 10
                     THEN SubSeq(path, Len(path) - 10 + 1, Len(path))
                     ELSE path
         IN  [name |-> re(<<"L">> \o SubSeq(sha, 1, 29) \o tail),
              err |-> None]

LockNames == {lockNameFromPath(p).name : p \in Paths \ {EmptyPath}}

(***************************************************************************)
(* Entries (cookies).  The fields this layer reads are Persistent          *)
(* (allPersistentEntries), and through the store's methods CanonicalHost,  *)
(* Path, Expires and Updated.                                              *)
(***************************************************************************)
Entry(n, h, p, ps, ex, up) ==
    [Name |-> n, CanonicalHost |-> h, Path |-> p, Persistent |-> ps,
     Expires |-> ex, Updated |-> up]

EX  == Entry("x", "a.com", "/",   TRUE,  3, 1)
EX2 == Entry("x", "a.com", "/",   TRUE,  3, 2)    \* EX set again, persistent
EXS == Entry("x", "a.com", "/",   FALSE, 3, 2)    \* EX set again, as a session cookie
EW  == Entry("w", "a.com", "/",   TRUE,  1, 1)
EY  == Entry("y", "a.com", "/q",  TRUE,  3, 1)
EZ  == Entry("z", "b.com", "/pq", TRUE,  2, 1)
ES  == Entry("s", "b.com", "/p",  FALSE, 3, 1)    \* a session cookie

\* The Jars when the behaviour starts: each process has set some cookies.
InitEntries ==
    [p \in {"p1", "p2"} |-> IF p = "p1" THEN {EX, ES} ELSE {EXS, EW, EY}]

\* The entries SetCookies may put into a Jar.
NewEntries == {EX2, ES}

\* The identity of an entry within a Jar.
id(e) == <<e.CanonicalHost, e.Path, e.Name>>

(***************************************************************************)
(* The in-memory store: j.entries, kept here as the set of its entries;    *)
(* no two entries of a Jar have the same id.                               *)
(***************************************************************************)
Range(s) == {s[i] : i \in 1..Len(s)}

\* j.merge: more recently updated entries take precedence over older ones.
RECURSIVE merge(_, _)
merge(store, es) ==
    IF es = << >> THEN store
    ELSE LET e == Head(es)
             old == {o \in store : id(o) = id(e)}
             next == IF old = {} THEN store \cup {e}
                     ELSE IF \E o \in old : e.Updated > o.Updated
                          THEN (store \ old) \cup {e}
                          ELSE store
         IN  merge(next, Tail(es))

\* j.deleteExpired: entries whose expiry is at or before now are removed.
deleteExpired(store, now) == {e \in store : e.Expires > now}

(***************************************************************************)
(* Ordering policy (byCanonicalHost): canonical host ascending, then path  *)
(* length ascending.                                                       *)
(***************************************************************************)
HostOrder == <<"a.com", "b.com">>
HostRank(h) == CHOOSE i \in 1..Len(HostOrder) : HostOrder[i] = h

Less(e0, e1) ==
    IF e0.CanonicalHost # e1.CanonicalHost
    THEN HostRank(e0.CanonicalHost) < HostRank(e1.CanonicalHost)
    ELSE Len(e0.Path) < Len(e1.Path)

IsSorted(s) == \A i, k \in 1..Len(s) : i < k => ~Less(s[k], s[i])

\* Every enumeration of the set S as a sequence.
Orderings(S) ==
    {s \in [1..Cardinality(S) -> S] : \A i, k \in 1..Cardinality(S) : i # k => s[i] # s[k]}

(***************************************************************************)
(* The cookie file.  kind tells what a JSON decoder finds in it:           *)
(*   absent   no file                                                      *)
(*   empty    zero bytes                                                   *)
(*   corrupt  bytes that are not a JSON value                              *)
(*   legacy   a JSON value that does not unmarshal into []entry            *)
(*   null     the JSON value null                                          *)
(*   array    a JSON array of entries (data)                               *)
(***************************************************************************)
FileOf(k, d) == [kind |-> k, data |-> d]
Absent == FileOf("absent", << >>)
Empty == FileOf("empty", << >>)
Corrupt == FileOf("corrupt", << >>)
Legacy == FileOf("legacy", << >>)
NoFile == FileOf(None, << >>)    \* no file recorded (history variables)

\* encoder.Encode(entries): a nil slice is written as null.
Encode(es) == IF es = << >> THEN FileOf("null", << >>) ELSE FileOf("array", es)

\* allPersistentEntries without the call of sort.Sort.
allPersistentEntries_unsorted(store) ==
    Orderings({e \in store : e.Persistent})

\* allPersistentEntries without the test of e.Persistent.
allPersistentEntries_all(store) ==
    {s \in Orderings(store) : IsSorted(s)}

\* allPersistentEntries: the persistent entries of the Jar, sorted.  The
\* map is ranged over in any order and sort.Sort is not stable, so entries
\* that compare equal come out in any order.
allPersistentEntries(store) ==
    {s \in Orderings({e \in store : e.Persistent}) : IsSorted(s)}

\* mergeFrom that unmarshals the entries and never hands them to j.merge.
mergeFrom_noMerge(store, f) ==
    CASE f.kind = "corrupt" ->
           [entries |-> store, err |-> "decode", merged |-> << >>]
      [] f.kind \in {"empty", "legacy", "null", "array"} ->
           [entries |-> store, err |-> None, merged |-> << >>]

\* mergeFrom that does not tell io.EOF from other decode errors.
mergeFrom_eofError(store, f) ==
    CASE f.kind \in {"empty", "corrupt"} ->
           [entries |-> store, err |-> "decode", merged |-> << >>]
      [] f.kind = "legacy" ->
           [entries |-> store, err |-> None, merged |-> << >>]
      [] f.kind \in {"null", "array"} ->
           [entries |-> merge(store, f.data), err |-> None, merged |-> f.data]

\* mergeFrom(r): the Jar after the call, the error returned and the entries
\* handed to j.merge.
mergeFrom(store, f) ==
    CASE f.kind = "empty" ->
           [entries |-> store, err |-> None, merged |-> << >>]
      [] f.kind = "corrupt" ->
           [entries |-> store, err |-> "decode", merged |-> << >>]
      [] f.kind = "legacy" ->
           [entries |-> store, err |-> None, merged |-> << >>]
      [] f.kind \in {"null", "array"} ->
           [entries |-> merge(store, f.data), err |-> None, merged |-> f.data]

(***************************************************************************)
(* State.                                                                  *)
(***************************************************************************)
VARIABLES
    filename,   \* j.filename of each process's Jar
    file,       \* the cookie file at JarPath
    locks,      \* named lock -> the goroutine holding it, or None
    mu,         \* j.mu of each process -> the goroutine holding it, or None
    entries,    \* j.entries of each process
    pc,         \* position of each goroutine
    op,         \* the call each goroutine is in: save, load, set or None
    err,        \* the error of the call, "ok" for nil, None while undecided
    now,        \* the argument of save
    nops,       \* calls started so far
    atLock,     \* history: the file when the call acquired the named lock
    readKind,   \* history: the kind of file the call opened or decoded
    merged,     \* history: the entries the call handed to j.merge
    afterMerge, \* history: j.entries right after save's merge step
    clock,      \* lockFile alone: the wall clock, in ticks of 100 microseconds
    startTime,  \* lockFile alone: its local startTime
    retry,      \* lockFile alone: its local retry
    lpc,        \* lockFile alone: its position
    holder,     \* lockFile alone: who competes for the named lock
    nm,         \* lockNameFromPath alone: the path and what the calls returned
    ser         \* allPersistentEntries alone: the slices returned so far

core == <<filename, file, locks, mu, entries, pc, op, err, now, nops,
          atLock, readKind, merged, afterMerge>>

\* The state of the specifications that run one function alone.
aux == <<clock, startTime, retry, lpc, holder, nm, ser>>

vars == <<core, aux>>

hist == <<atLock, readKind, merged, afterMerge>>

\* The functions that are run alone are not running.
AuxOff ==
    /\ clock = 0 /\ startTime = 0 /\ retry = 0
    /\ lpc = "off" /\ holder = None
    /\ nm = [stage |-> "off"]
    /\ ser = << >>

InitFiles == {Absent, Empty, Corrupt, Legacy, FileOf("array", <<EX, EZ>>)}

Init ==
    /\ filename \in [Procs -> Paths]
    /\ file \in InitFiles
    /\ locks = [n \in LockNames |-> None]
    /\ mu = [p \in Procs |-> None]
    /\ entries = InitEntries
    /\ pc = [t \in Threads |-> "idle"]
    /\ op = [t \in Threads |-> None]
    /\ err = [t \in Threads |-> None]
    /\ now = [t \in Threads |-> 0]
    /\ nops = 0
    /\ atLock = [t \in Threads |-> NoFile]
    /\ readKind = [t \in Threads |-> None]
    /\ merged = [t \in Threads |-> << >>]
    /\ afterMerge = [t \in Threads |-> {}]
    /\ AuxOff

\* No call is made on the Jars: the state of the calls when one function is
\* run alone, p1's Jar holding the entries S.
CoreIdle(S) ==
    /\ filename = [p \in Procs |-> JarPath]
    /\ file = Absent
    /\ locks = [n \in LockNames |-> None]
    /\ mu = [p \in Procs |-> None]
    /\ entries = [p \in Procs |-> IF p = "p1" THEN S ELSE {}]
    /\ pc = [t \in Threads |-> "idle"]
    /\ op = [t \in Threads |-> None]
    /\ err = [t \in Threads |-> None]
    /\ now = [t \in Threads |-> 0]
    /\ nops = 0
    /\ atLock = [t \in Threads |-> NoFile]
    /\ readKind = [t \in Threads |-> None]
    /\ merged = [t \in Threads |-> << >>]
    /\ afterMerge = [t \in Threads |-> {}]

\* The named lock of the file a goroutine's Jar is stored in.
NameOf(t) == lockNameFromPath(filename[ProcOf(t)]).name

\* The call returns err: the goroutine is idle again, its history is dropped.
Return(t, e) ==
    /\ pc' = [pc EXCEPT ![t] = "idle"]
    /\ err' = [err EXCEPT ![t] = e]
    /\ now' = [now EXCEPT ![t] = 0]
    /\ atLock' = [atLock EXCEPT ![t] = NoFile]
    /\ readKind' = [readKind EXCEPT ![t] = None]
    /\ merged' = [merged EXCEPT ![t] = << >>]
    /\ afterMerge' = [afterMerge EXCEPT ![t] = {}]

Goto(t, l) == pc' = [pc EXCEPT ![t] = l]
Fail(t, e, l) == /\ pc' = [pc EXCEPT ![t] = l]
                 /\ err' = [err EXCEPT ![t] = e]

(***************************************************************************)
(* Save / load entry.                                                      *)
(***************************************************************************)
\* A call enters lockFile: lockNameFromPath fails the call on an empty path
\* before any lock is tried; otherwise control reaches the retry loop.
lockFileEnter(t, o, n) ==
    /\ pc[t] = "idle"
    /\ nops < MaxOps
    /\ nops' = nops + 1
    /\ op' = [op EXCEPT ![t] = o]
    /\ IF lockNameFromPath(filename[ProcOf(t)]).err # None
       THEN /\ pc' = pc
            /\ err' = [err EXCEPT ![t] = "invalid"]
            /\ now' = now
       ELSE /\ pc' = [pc EXCEPT ![t] = "acquire"]
            /\ err' = [err EXCEPT ![t] = None]
            /\ now' = [now EXCEPT ![t] = n]
    /\ UNCHANGED <<aux, filename, file, locks, mu, entries, hist>>

\* j.save(n) is called.
Save(t, n) == lockFileEnter(t, "save", n)

\* j.load() is called.
Load(t) == lockFileEnter(t, "load", 0)

(***************************************************************************)
(* lockFile.                                                               *)
(***************************************************************************)
\* lockFile that hands out a releaser whether or not Acquire succeeded.
lockFile_noCheck(t) ==
    /\ pc[t] = "acquire"
    /\ locks' = [locks EXCEPT ![NameOf(t)] = IF @ = None THEN t ELSE @]
    /\ Goto(t, "open")
    /\ atLock' = [atLock EXCEPT ![t] = file]
    /\ UNCHANGED <<err, now, readKind, merged, afterMerge>>
    /\ UNCHANGED <<aux, filename, file, mu, entries, op, nops>>

\* One turn of the loop: mutex.Acquire; on failure give up when more than
\* maxRetryDuration has passed since the start, else sleep and take the next
\* turn.
Elapsed == {0, maxRetryDuration, maxRetryDuration + 1}

lockFile(t) ==
    /\ pc[t] = "acquire"
    /\ IF locks[NameOf(t)] = None
       THEN /\ locks' = [locks EXCEPT ![NameOf(t)] = t]
            /\ Goto(t, "open")
            /\ atLock' = [atLock EXCEPT ![t] = file]
            /\ UNCHANGED <<err, now, readKind, merged, afterMerge>>
       ELSE /\ \E total \in Elapsed :
                 IF total > maxRetryDuration
                 THEN Return(t, "lock")
                 ELSE UNCHANGED <<pc, err, now, hist>>
            /\ UNCHANGED locks
    /\ UNCHANGED <<aux, filename, file, mu, entries, op, nops>>

\* defer f.Close() (where a file was opened) and defer releaser.Release(),
\* then the call returns its error.
Release(t) ==
    /\ pc[t] = "release"
    /\ locks' = [locks EXCEPT ![NameOf(t)] = IF @ = t THEN None ELSE @]
    /\ Return(t, err[t])
    /\ UNCHANGED <<aux, filename, file, mu, entries, op, nops>>

(***************************************************************************)
(* save, after lockFile.                                                   *)
(***************************************************************************)
\* save whose failed open leaves a file created.
save_OpenFile_failCreates(t) ==
    /\ pc[t] = "open" /\ op[t] = "save"
    /\ \/ /\ Fail(t, "open", "release")
          /\ file' = IF file.kind = "absent" THEN Empty ELSE file
       \/ /\ Goto(t, "muLock")
          /\ file' = IF file.kind = "absent" THEN Empty ELSE file
          /\ UNCHANGED err
    /\ UNCHANGED <<aux, filename, locks, mu, entries, op, now, nops, hist>>

\* save that opens the file with O_TRUNC as well.
save_OpenFile_trunc(t) ==
    /\ pc[t] = "open" /\ op[t] = "save"
    /\ \/ /\ Fail(t, "open", "release")
          /\ UNCHANGED file
       \/ /\ Goto(t, "muLock")
          /\ file' = Empty
          /\ UNCHANGED err
    /\ UNCHANGED <<aux, filename, locks, mu, entries, op, now, nops, hist>>

\* os.OpenFile(j.filename, O_RDWR|O_CREATE, 0600): creates the file when it
\* is absent, never truncates it.
save_OpenFile(t) ==
    /\ pc[t] = "open" /\ op[t] = "save"
    /\ \/ /\ Fail(t, "open", "release")
          /\ UNCHANGED file
       \/ /\ Goto(t, "muLock")
          /\ file' = IF file.kind = "absent" THEN Empty ELSE file
          /\ UNCHANGED err
    /\ UNCHANGED <<aux, filename, locks, mu, entries, op, now, nops, hist>>

\* j.mu.Lock()
save_muLock(t) ==
    /\ pc[t] = "muLock"
    /\ mu[ProcOf(t)] = None
    /\ mu' = [mu EXCEPT ![ProcOf(t)] = t]
    /\ Goto(t, "merge")
    /\ UNCHANGED <<aux, filename, file, locks, entries, op, err, now, nops, hist>>

\* save that overwrites the file without merging it first.
save_mergeFrom_noMerge(t) ==
    /\ pc[t] = "merge" /\ op[t] = "save"
    /\ merged' = [merged EXCEPT ![t] = << >>]
    /\ afterMerge' = [afterMerge EXCEPT ![t] = entries[ProcOf(t)]]
    /\ readKind' = [readKind EXCEPT ![t] = file.kind]
    /\ Goto(t, "expire")
    /\ UNCHANGED <<aux, filename, file, locks, mu, entries, op, err, now, nops, atLock>>

\* save that returns the error of mergeFrom instead of ignoring it.
save_mergeFrom_strict(t) ==
    /\ pc[t] = "merge" /\ op[t] = "save"
    /\ LET m == mergeFrom(entries[ProcOf(t)], file)
       IN  /\ entries' = [entries EXCEPT ![ProcOf(t)] = m.entries]
           /\ merged' = [merged EXCEPT ![t] = m.merged]
           /\ afterMerge' = [afterMerge EXCEPT ![t] = m.entries]
           /\ IF m.err # None
              THEN Fail(t, "decode", "muUnlock")
              ELSE Goto(t, "expire") /\ UNCHANGED err
    /\ readKind' = [readKind EXCEPT ![t] = file.kind]
    /\ UNCHANGED <<aux, filename, file, locks, mu, op, now, nops, atLock>>

\* j.mergeFrom(f); an error is logged and ignored.
save_mergeFrom(t) ==
    /\ pc[t] = "merge" /\ op[t] = "save"
    /\ LET m == mergeFrom(entries[ProcOf(t)], file)
       IN  /\ entries' = [entries EXCEPT ![ProcOf(t)] = m.entries]
           /\ merged' = [merged EXCEPT ![t] = m.merged]
           /\ afterMerge' = [afterMerge EXCEPT ![t] = m.entries]
    /\ readKind' = [readKind EXCEPT ![t] = file.kind]
    /\ Goto(t, "expire")
    /\ UNCHANGED <<aux, filename, file, locks, mu, op, err, now, nops, atLock>>

\* save that does not purge expired entries.
save_deleteExpired_skip(t) ==
    /\ pc[t] = "expire"
    /\ Goto(t, "truncate")
    /\ UNCHANGED <<aux, filename, file, locks, mu, entries, op, err, now, nops, hist>>

\* j.deleteExpired(now)
save_deleteExpired(t) ==
    /\ pc[t] = "expire"
    /\ entries' = [entries EXCEPT ![ProcOf(t)] = deleteExpired(@, now[t])]
    /\ Goto(t, "truncate")
    /\ UNCHANGED <<aux, filename, file, locks, mu, op, err, now, nops, hist>>

\* f.Truncate(0)
save_Truncate(t) ==
    /\ pc[t] = "truncate"
    /\ \/ /\ Fail(t, "truncate", "muUnlock")
          /\ UNCHANGED file
       \/ /\ Goto(t, "seek")
          /\ file' = Empty
          /\ UNCHANGED err
    /\ UNCHANGED <<aux, filename, locks, mu, entries, op, now, nops, hist>>

\* f.Seek(0, 0)
save_Seek(t) ==
    /\ pc[t] = "seek"
    /\ \/ Fail(t, "seek", "muUnlock")
       \/ /\ Goto(t, "write")
          /\ UNCHANGED err
    /\ UNCHANGED <<aux, filename, file, locks, mu, entries, op, now, nops, hist>>

\* j.writeTo(f): the sorted persistent entries are encoded into the file.  A
\* failed write leaves nothing or a part of the encoding in the file.
writeTo(t) ==
    /\ pc[t] = "write"
    /\ \/ /\ \E es \in allPersistentEntries(entries[ProcOf(t)]) :
                file' = Encode(es)
          /\ Fail(t, "ok", "muUnlock")
       \/ /\ file' \in {Empty, Corrupt}
          /\ Fail(t, "encode", "muUnlock")
    /\ UNCHANGED <<aux, filename, locks, mu, entries, op, now, nops, hist>>

\* defer j.mu.Unlock()
save_muUnlock(t) ==
    /\ pc[t] = "muUnlock"
    /\ mu' = [mu EXCEPT ![ProcOf(t)] = IF @ = t THEN None ELSE @]
    /\ Goto(t, "release")
    /\ UNCHANGED <<aux, filename, file, locks, entries, op, err, now, nops, hist>>

(***************************************************************************)
(* load, after lockFile.                                                   *)
(***************************************************************************)
\* load that opens the file with O_CREATE.
load_Open_create(t) ==
    /\ pc[t] = "open" /\ op[t] = "load"
    /\ \/ Fail(t, "open", "release") /\ UNCHANGED file
       \/ /\ Goto(t, "merge")
          /\ file' = IF file.kind = "absent" THEN Empty ELSE file
          /\ UNCHANGED err
    /\ UNCHANGED <<aux, filename, locks, mu, entries, op, now, nops, hist>>

\* load whose early return on a missing file skips the deferred Release.
load_Open_noRelease(t) ==
    /\ pc[t] = "open" /\ op[t] = "load"
    /\ IF file.kind = "absent"
       THEN Return(t, "ok")
       ELSE /\ \/ Fail(t, "open", "release")
               \/ /\ Goto(t, "merge")
                  /\ UNCHANGED err
            /\ UNCHANGED <<now, hist>>
    /\ UNCHANGED <<aux, filename, file, locks, mu, entries, op, nops>>

\* os.Open(j.filename): a missing file ends the call with no error.
load_Open(t) ==
    /\ pc[t] = "open" /\ op[t] = "load"
    /\ IF file.kind = "absent"
       THEN /\ Fail(t, "ok", "release")
            /\ readKind' = [readKind EXCEPT ![t] = "absent"]
       ELSE /\ \/ Fail(t, "open", "release")
               \/ /\ Goto(t, "merge")
                  /\ UNCHANGED err
            /\ UNCHANGED readKind
    /\ UNCHANGED <<aux, filename, file, locks, mu, entries, op, now, nops,
                   atLock, merged, afterMerge>>

\* load that logs and ignores the error of mergeFrom, as save does.
load_mergeFrom_swallow(t) ==
    /\ pc[t] = "merge" /\ op[t] = "load"
    /\ LET m == mergeFrom(entries[ProcOf(t)], file)
       IN  /\ entries' = [entries EXCEPT ![ProcOf(t)] = m.entries]
           /\ merged' = [merged EXCEPT ![t] = m.merged]
    /\ Fail(t, "ok", "release")
    /\ readKind' = [readKind EXCEPT ![t] = file.kind]
    /\ UNCHANGED <<aux, filename, file, locks, mu, op, now, nops, atLock, afterMerge>>

\* Another goroutine of the process is inside j.mu while this one, which
\* does not hold j.mu, writes j.entries: a data race on the map.
Racing(t, es) ==
    /\ es # << >>
    /\ \E u \in Threads \ {t} : ProcOf(u) = ProcOf(t) /\ mu[ProcOf(t)] = u

\* What a racing merge may leave in j.entries.
TornStores(store, es) ==
    {S \in SUBSET (store \cup Range(es)) :
        \A a, b \in S : id(a) = id(b) => a = b}

\* j.mergeFrom(f) in load; an error is returned to the caller.  load does not
\* take j.mu.
load_mergeFrom(t) ==
    /\ pc[t] = "merge" /\ op[t] = "load"
    /\ LET m == mergeFrom(entries[ProcOf(t)], file)
       IN  /\ \/ entries' = [entries EXCEPT ![ProcOf(t)] = m.entries]
              \/ /\ Racing(t, m.merged)
                 /\ \E S \in TornStores(entries[ProcOf(t)], m.merged) :
                       entries' = [entries EXCEPT ![ProcOf(t)] = S]
           /\ merged' = [merged EXCEPT ![t] = m.merged]
           /\ IF m.err # None
              THEN Fail(t, "decode", "release")
              ELSE Fail(t, "ok", "release")
    /\ readKind' = [readKind EXCEPT ![t] = file.kind]
    /\ UNCHANGED <<aux, filename, file, locks, mu, op, now, nops, atLock, afterMerge>>

\* The Go runtime detects the concurrent map access of a racing merge and
\* ends the process; the operating system drops the locks it held.
load_mergeFromFatal(t) ==
    /\ pc[t] = "merge" /\ op[t] = "load"
    /\ Racing(t, mergeFrom(entries[ProcOf(t)], file).merged)
    /\ LET dead == {u \in Threads : ProcOf(u) = ProcOf(t)}
       IN  /\ pc' = [u \in Threads |-> IF u \in dead THEN "crashed" ELSE pc[u]]
           /\ op' = [u \in Threads |-> IF u \in dead THEN None ELSE op[u]]
           /\ err' = [u \in Threads |-> IF u \in dead THEN None ELSE err[u]]
           /\ now' = [u \in Threads |-> IF u \in dead THEN 0 ELSE now[u]]
           /\ locks' = [n \in LockNames |-> IF locks[n] \in dead THEN None ELSE locks[n]]
           /\ atLock' = [u \in Threads |-> IF u \in dead THEN NoFile ELSE atLock[u]]
           /\ readKind' = [u \in Threads |-> IF u \in dead THEN None ELSE readKind[u]]
           /\ merged' = [u \in Threads |-> IF u \in dead THEN << >> ELSE merged[u]]
           /\ afterMerge' = [u \in Threads |-> IF u \in dead THEN {} ELSE afterMerge[u]]
    /\ mu' = [mu EXCEPT ![ProcOf(t)] = None]
    /\ entries' = [entries EXCEPT ![ProcOf(t)] = {}]
    /\ UNCHANGED <<aux, filename, file, nops>>

(***************************************************************************)
(* Any other mutation of the Jar by its process (SetCookies): it takes     *)
(* j.mu, stores an entry and releases j.mu.                                *)
(***************************************************************************)
SetCookies_Lock(t) ==
    /\ pc[t] = "idle"
    /\ nops < MaxOps
    /\ mu[ProcOf(t)] = None
    /\ nops' = nops + 1
    /\ mu' = [mu EXCEPT ![ProcOf(t)] = t]
    /\ pc' = [pc EXCEPT ![t] = "setCookies"]
    /\ op' = [op EXCEPT ![t] = "set"]
    /\ err' = [err EXCEPT ![t] = None]
    /\ UNCHANGED <<aux, filename, file, locks, entries, now, hist>>

SetCookies_Store(t, e) ==
    /\ pc[t] = "setCookies"
    /\ entries' = [entries EXCEPT ![ProcOf(t)] =
                      {o \in @ : id(o) # id(e)} \cup {e}]
    /\ mu' = [mu EXCEPT ![ProcOf(t)] = None]
    /\ Return(t, "ok")
    /\ UNCHANGED <<aux, filename, file, locks, op, nops>>

(***************************************************************************)
(* The specification.                                                      *)
(***************************************************************************)
Step(t) ==
    \/ \E n \in 1..MaxNow : Save(t, n)
    \/ Load(t)
    \/ lockFile(t)
    \/ save_OpenFile(t)
    \/ save_muLock(t)
    \/ save_mergeFrom(t)
    \/ save_deleteExpired(t)
    \/ save_Truncate(t)
    \/ save_Seek(t)
    \/ writeTo(t)
    \/ save_muUnlock(t)
    \/ Release(t)
    \/ load_Open(t)
    \/ load_mergeFrom(t)
    \/ load_mergeFromFatal(t)
    \/ SetCookies_Lock(t)
    \/ \E e \in NewEntries : SetCookies_Store(t, e)

Next == \E t \in Threads : Step(t)

Spec == Init /\ [][Next]_vars

(***************************************************************************)
(* Properties.                                                             *)
(***************************************************************************)
FileEntries == Range(file.data)
Unexpired(e, n) == e.Expires > n

\* The call has written the file and has not yet released anything.
Written(t) == pc[t] = "muUnlock" /\ op[t] = "save" /\ err[t] = "ok"

\* The positions at which a call has the file open or is about to open it.
FilePcs == {"open", "muLock", "merge", "expire", "truncate", "seek", "write"}

\* C1 (as stated): every persistent, unexpired record that is in the file
\* when a save acquires the named lock is, when that save has written the
\* file successfully, still in the file, as itself or as a record of the
\* same identity.
C1_NoLossAsStated ==
    \A t \in Threads :
        Written(t) =>
            \A r \in Range(atLock[t].data) :
                (r.Persistent /\ Unexpired(r, now[t])) =>
                    \E q \in FileEntries : id(q) = id(r)

\* C1 (amended): every persistent, unexpired record that is in the file
\* when a save acquires the named lock is still in the file (as itself or as
\* a record of the same identity) when that save has written the file
\* successfully, unless the record of that identity that won the merge in
\* the saving Jar is another one that is not persistent or has expired.
C1_NoLoss ==
    \A t \in Threads :
        Written(t) =>
            \A r \in Range(atLock[t].data) :
                (r.Persistent /\ Unexpired(r, now[t])) =>
                    \/ \E q \in FileEntries : id(q) = id(r)
                    \/ \E q \in afterMerge[t] :
                          /\ id(q) = id(r) /\ q # r
                          /\ ~(q.Persistent /\ Unexpired(q, now[t]))

\* C1 witness: p2 saved EY, p1 saved EX afterwards, and the file p1 wrote
\* holds the record of p2 (EY) and the one of p1 (EX).
C1_Witness ==
    /\ Written("t1")
    /\ EY \in Range(atLock["t1"].data)
    /\ EY \in FileEntries /\ EX \in FileEntries

\* C2: a goroutine that has the file open, or is about to open it, holds the
\* named lock of the file's path, and at most one goroutine is there.
C2_MutualExclusion ==
    /\ \A t \in Threads : pc[t] \in FilePcs => locks[NameOf(t)] = t
    /\ \A t, u \in Threads : (pc[t] \in FilePcs /\ pc[u] \in FilePcs) => t = u

\* C2 witness: a goroutine has truncated the file and not yet written it
\* while a goroutine of another process is trying to take the lock.
C2_Witness ==
    \E t, u \in Threads :
        /\ ProcOf(t) # ProcOf(u)
        /\ pc[t] = "seek"
        /\ pc[u] = "acquire"

\* C3: a goroutine that is not inside a call holds neither the named lock
\* nor j.mu: every call that took them has given them back on return.
C3_GuaranteedRelease ==
    \A t \in Threads :
        pc[t] = "idle" =>
            /\ \A n \in LockNames : locks[n] # t
            /\ mu[ProcOf(t)] # t

\* C3 witness: a load has returned a decode error and a save has returned
\* a seek error; both had taken the named lock.
C3_Witness ==
    \E t, u \in Threads :
        /\ pc[t] = "idle" /\ op[t] = "load" /\ err[t] = "decode"
        /\ pc[u] = "idle" /\ op[u] = "save" /\ err[u] = "seek"

\* C4 (as stated): while load merges the file into the Jar it holds j.mu,
\* so no other goroutine of the process is inside j.mu at that time.
C4_LoadMergeHoldsMu ==
    \A t \in Threads :
        (pc[t] = "merge" /\ op[t] = "load") => mu[ProcOf(t)] = t

\* The overlap C4 rules out: load is merging while another goroutine of the
\* same process is inside j.mu.
C4_Overlap ==
    \E t, u \in Threads :
        /\ t # u /\ ProcOf(t) = ProcOf(u)
        /\ pc[t] = "merge" /\ op[t] = "load"
        /\ mu[ProcOf(t)] = u

\* Goroutine t takes the step that leaves position l.
Leaves(t, l) == pc[t] = l /\ pc'[t] \notin {l, "crashed"}

\* C5: a save that found syntactically invalid data in the file and whose
\* truncate, seek and encode succeeded returns no error, has merged nothing
\* from the file, and leaves in the file exactly the persistent entries of
\* its Jar, all of them unexpired.
C5_CorruptNotFatal ==
    \A t \in Threads :
        (op[t] = "save" /\ readKind[t] = "corrupt") =>
            /\ merged[t] = << >>
            /\ err[t] \in {None, "ok", "truncate", "seek", "encode"}
            /\ (pc[t] = "muUnlock" /\ err[t] \notin {"truncate", "seek", "encode"}) =>
                  /\ err[t] = "ok"
                  /\ file.kind \in {"null", "array"}
                  /\ FileEntries = {e \in entries[ProcOf(t)] : e.Persistent}
                  /\ \A e \in FileEntries : Unexpired(e, now[t])

\* C5 witness: a save over a corrupt file has written the file and it now
\* holds an entry.
C5_Witness ==
    \E t \in Threads :
        /\ Written(t) /\ readKind[t] = "corrupt" /\ atLock[t] = Corrupt
        /\ file.kind = "array"

\* C6: load on a path where no file exists goes straight to its return with
\* no error; that step changes neither any Jar nor the file, the call hands
\* nothing to j.merge, and the file is still absent when the call releases
\* the lock.
C6_LoadMissingFile ==
    /\ [](\A t \in Threads :
            (op[t] = "load" /\ readKind[t] = "absent") =>
                /\ pc[t] = "release" /\ err[t] = "ok"
                /\ merged[t] = << >>
                /\ file.kind = "absent")
    /\ [][\A t \in Threads :
            (Leaves(t, "open") /\ op[t] = "load" /\ file.kind = "absent") =>
                /\ pc'[t] = "release" /\ err'[t] = "ok"
                /\ readKind'[t] = "absent"
                /\ entries' = entries /\ file' = file]_vars

\* C6 witness: a load found no file and is about to return.
C6_Witness ==
    \E t \in Threads :
        /\ op[t] = "load" /\ readKind[t] = "absent" /\ pc[t] = "release"
        /\ atLock[t] = Absent

\* C7: when the file holds syntactically invalid data, load's merge step
\* ends the call with a decode error and leaves every Jar unchanged, while
\* save's merge step records no error and goes on to purge and write.
C7_DecodeError ==
    /\ [](\A t \in Threads :
            (readKind[t] = "corrupt" /\ op[t] = "load") =>
                pc[t] = "release" /\ err[t] = "decode" /\ merged[t] = << >>)
    /\ [][\A t \in Threads :
            (Leaves(t, "merge") /\ file.kind = "corrupt") =>
                /\ entries' = entries
                /\ readKind'[t] = "corrupt"
                /\ IF op[t] = "load"
                   THEN pc'[t] = "release" /\ err'[t] = "decode"
                   ELSE pc'[t] = "expire" /\ err'[t] = None]_vars
    /\ [][\A t \in Threads :
            (Leaves(t, "release") /\ err[t] = "decode") =>
                pc'[t] = "idle" /\ err'[t] = "decode"]_vars

\* C7 witness: a load over a corrupt file is about to return its decode
\* error.
C7_Witness ==
    \E t \in Threads :
        /\ op[t] = "load" /\ readKind[t] = "corrupt" /\ pc[t] = "release"
        /\ err[t] = "decode"

\* C8: when the file is empty or holds a valid value that is not an array of
\* entries, the merge step of load and of save hands nothing to j.merge,
\* leaves every Jar unchanged and reports no error; load then returns no
\* error.
C8_EmptyAndLegacy ==
    /\ [](\A t \in Threads :
            readKind[t] \in {"empty", "legacy"} =>
                /\ merged[t] = << >>
                /\ err[t] # "decode"
                /\ op[t] = "load" => (pc[t] = "release" /\ err[t] = "ok"))
    /\ [][\A t \in Threads :
            (Leaves(t, "merge") /\ file.kind \in {"empty", "legacy"}) =>
                /\ entries' = entries
                /\ readKind'[t] = file.kind
                /\ IF op[t] = "load"
                   THEN pc'[t] = "release" /\ err'[t] = "ok"
                   ELSE pc'[t] = "expire" /\ err'[t] = None]_vars

\* C8 witness: a load over a legacy file is about to return no error, with
\* entries in its Jar.
C8_Witness ==
    \E t \in Threads :
        /\ op[t] = "load" /\ readKind[t] = "legacy" /\ pc[t] = "release"
        /\ err[t] = "ok" /\ entries[ProcOf(t)] # {}

\* C9: when save(now) has written the file successfully, no record in the
\* file has an expiry at or before now, and every persistent record of the
\* merged Jar whose expiry is after now is in the file.
C9_ExpiryAtSave ==
    \A t \in Threads :
        Written(t) =>
            /\ \A r \in FileEntries : Unexpired(r, now[t])
            /\ \A r \in afterMerge[t] :
                  (r.Persistent /\ Unexpired(r, now[t])) => r \in FileEntries

\* C9 witness: a save has written the file; the file it merged held a
\* record that expires exactly at now, its Jar held one that expired before
\* now, and an unexpired record was written.
C9_Witness ==
    \E t \in Threads :
        /\ Written(t)
        /\ \E r \in Range(merged[t]) : r.Expires = now[t]
        /\ \E r \in afterMerge[t] \ Range(merged[t]) : r.Expires < now[t]
        /\ FileEntries # {}

\* C10: every record in the file has the persistence flag true.
C10_OnlyPersistent == \A r \in FileEntries : r.Persistent

\* C10 witness: a save has written entries of a Jar that also holds an
\* unexpired entry with the persistence flag false.
C10_Witness ==
    \E t \in Threads :
        /\ Written(t)
        /\ file.kind = "array"
        /\ \E e \in entries[ProcOf(t)] : ~e.Persistent /\ Unexpired(e, now[t])

(***************************************************************************)
(* Round trip: process p1 saves a Jar of persistent, unexpired entries to  *)
(* an absent or empty file and process p2 loads the file into a new, empty *)
(* Jar.                                                                    *)
(***************************************************************************)
RX == Entry("x", "a.com", "/",   TRUE, MaxNow + 1, 1)
RW == Entry("w", "a.com", "/",   TRUE, MaxNow + 1, 1)
RY == Entry("y", "a.com", "/q",  TRUE, MaxNow + 1, 2)
RZ == Entry("z", "b.com", "/pq", TRUE, MaxNow + 2, 1)

RoundTripStores == (SUBSET {RX, RW, RY, RZ}) \ {{}}

InitRoundTrip ==
    /\ filename = [p \in Procs |-> JarPath]
    /\ file \in {Absent, Empty}
    /\ locks = [n \in LockNames |-> None]
    /\ mu = [p \in Procs |-> None]
    /\ \E S \in RoundTripStores : entries = [p \in Procs |-> IF p = "p1" THEN S ELSE {}]
    /\ pc = [t \in Threads |-> "idle"]
    /\ op = [t \in Threads |-> None]
    /\ err = [t \in Threads |-> None]
    /\ now = [t \in Threads |-> 0]
    /\ nops = 0
    /\ atLock = [t \in Threads |-> NoFile]
    /\ readKind = [t \in Threads |-> None]
    /\ merged = [t \in Threads |-> << >>]
    /\ afterMerge = [t \in Threads |-> {}]
    /\ AuxOff

\* Goroutine t1 of p1 saves, goroutine t3 of p2 loads.
NextRoundTrip ==
    \/ \E n \in 1..MaxNow : Save("t1", n)
    \/ Load("t3")
    \/ \E t \in {"t1", "t3"} :
          \/ lockFile(t)
          \/ save_OpenFile(t)
          \/ save_muLock(t)
          \/ save_mergeFrom(t)
          \/ save_deleteExpired(t)
          \/ save_Truncate(t)
          \/ save_Seek(t)
          \/ writeTo(t)
          \/ save_muUnlock(t)
          \/ Release(t)
          \/ load_Open(t)
          \/ load_mergeFrom(t)

SpecRoundTrip == InitRoundTrip /\ [][NextRoundTrip]_vars

\* C11: when p1's save of a non-empty Jar of persistent, unexpired entries
\* has returned no error and p2's load of the file into its empty Jar has
\* then finished with no error, p2's Jar holds exactly the entries of p1's.
C11_RoundTrip ==
    ( /\ pc["t1"] = "idle" /\ op["t1"] = "save" /\ err["t1"] = "ok"
      /\ pc["t3"] = "release" /\ op["t3"] = "load" /\ err["t3"] = "ok"
      /\ readKind["t3"] # "absent" )
    => /\ entries["p1"] \in RoundTripStores
       /\ entries["p2"] = entries["p1"]
       /\ Range(merged["t3"]) = entries["p1"]

\* C11 witness: the round trip of a Jar of three entries, two of which tie
\* in the serialization order.
C11_Witness ==
    /\ pc["t1"] = "idle" /\ op["t1"] = "save" /\ err["t1"] = "ok"
    /\ pc["t3"] = "release" /\ op["t3"] = "load" /\ err["t3"] = "ok"
    /\ entries["p2"] = {RX, RW, RZ}

(***************************************************************************)
(* allPersistentEntries alone: one Jar, never changed, is serialized twice *)
(* and the slices returned are kept in ser.                                *)
(***************************************************************************)
\* The Jars that are serialized: at most one entry of each identity.
OrderStores ==
    {S \in SUBSET {EX, EXS, EW, EY, EZ, ES} :
        \A e0, e1 \in S : id(e0) = id(e1) => e0 = e1}

InitOrder ==
    /\ \E S \in OrderStores : CoreIdle(S)
    /\ AuxOff

\* entries := j.allPersistentEntries(), as writeTo calls it.
Serialize ==
    /\ Len(ser) < 2
    /\ \E es \in allPersistentEntries(entries["p1"]) : ser' = Append(ser, es)
    /\ UNCHANGED <<core, clock, startTime, retry, lpc, holder, nm>>

NextOrder == Serialize

SpecOrder == InitOrder /\ [][NextOrder]_vars

\* Two entries that byCanonicalHost orders neither way.
Tie(e0, e1) == e0 # e1 /\ ~Less(e0, e1) /\ ~Less(e1, e0)

\* C12: serializing the same set of records twice gives the identical
\* sequence of records, also when records tie on canonical host and path
\* length.  The code does not do this: the map is ranged over in any order
\* and sort.Sort is not stable, so two tied entries come out in either order.
C12_DeterministicOrder == Len(ser) = 2 => ser[1] = ser[2]

\* The two serializations of a Jar with tied entries that differ.
C12_Diverge ==
    /\ Len(ser) = 2
    /\ ser[1] # ser[2]
    /\ Range(ser[1]) = Range(ser[2])
    /\ \E i, k \in 1..Len(ser[1]) : Tie(ser[1][i], ser[1][k])

(***************************************************************************)
(* lockFile alone, with the wall clock.  One caller runs the retry loop    *)
(* against a named lock that other processes hold.  holder says how        *)
(* mutex.Acquire fails:                                                    *)
(*   blocking   the lock is never released and Acquire waits out its own   *)
(*              Timeout (spec.Timeout = maxRetryDuration) before failing   *)
(*   failing    the lock is never released and every Acquire fails at once *)
(*   contended  the lock comes and goes: Acquire succeeds, fails at once,  *)
(*              fails at some moment of its wait or at its Timeout         *)
(* A call never takes less than one tick, and a wait never ends early: an  *)
(* Acquire that waits out its Timeout returns more than maxRetryDuration   *)
(* after startTime, which was read before the wait began.                  *)
(***************************************************************************)
Holders == {"blocking", "failing", "contended"}

\* The time a call takes beyond what it waits for.
Latency == 1..MaxLatency

\* mutex.Acquire(spec): whether it returned a releaser, and the time it took.
Acquire(h) ==
    LET timedOut == {[ok |-> FALSE, took |-> maxRetryDuration + a] : a \in Latency}
        atOnce == {[ok |-> FALSE, took |-> a] : a \in Latency}
        midWait == {[ok |-> FALSE, took |-> d] :
                       d \in {maxRetryDuration - 1, maxRetryDuration}}
        got == {[ok |-> TRUE, took |-> a] : a \in Latency}
    IN  CASE h = "blocking" -> timedOut
          [] h = "failing" -> atOnce
          [] OTHER -> got \cup atOnce \cup midWait \cup timedOut

\* if total >= maxRetryDuration: gives up at the deadline itself.
tooLong_atDeadline(total) == total >= maxRetryDuration

\* if total > maxRetryDuration
tooLong(total) == total > maxRetryDuration

\* The loop without the cut of retry to the time that remains.
nextRetry_keep(r, remain) == r

\* if remain := maxRetryDuration - total; retry > remain { retry = remain }
nextRetry(r, remain) == IF r > remain THEN remain ELSE r

InitLock ==
    /\ CoreIdle({})
    /\ clock \in 0..MaxLatency
    /\ startTime = 0 /\ retry = 0
    /\ lpc = "idle"
    /\ holder \in Holders
    /\ nm = [stage |-> "off"]
    /\ ser = << >>

\* retry := 100 * time.Microsecond; startTime := time.Now(); the mutex.Spec.
lockFile_start ==
    /\ lpc = "idle"
    /\ retry' = initialRetry
    /\ startTime' = clock
    /\ lpc' = "acquire"
    /\ UNCHANGED <<core, clock, holder, nm, ser>>

\* One turn of the loop up to the sleep: mutex.Acquire, then on failure
\* total := time.Since(startTime), the test of total and the cut of retry.
lockFile_turn ==
    /\ lpc = "acquire"
    /\ \E r \in Acquire(holder) :
          /\ clock' = clock + r.took
          /\ IF r.ok
             THEN lpc' = "held" /\ retry' = retry
             ELSE LET total == clock' - startTime
                  IN  IF tooLong(total)
                      THEN lpc' = "timeout" /\ retry' = retry
                      ELSE /\ lpc' = "sleep"
                           /\ retry' = nextRetry(retry, maxRetryDuration - total)
    /\ UNCHANGED <<core, startTime, holder, nm, ser>>

\* time.Sleep(retry): returns after at least retry.
lockFile_sleep ==
    /\ lpc = "sleep"
    /\ \E late \in 0..MaxLatency : clock' = clock + retry + late
    /\ lpc' = "acquire"
    /\ UNCHANGED <<core, startTime, retry, holder, nm, ser>>

NextLock == lockFile_start \/ lockFile_turn \/ lockFile_sleep

SpecLock == InitLock /\ [][NextLock]_vars

\* The time since lockFile read startTime.
Total == clock - startTime

\* The holder never releases the lock.
PermanentlyHeld == holder \in {"blocking", "failing"}

\* The margin: the lateness of one sleep and of one call.
Margin == 2 * MaxLatency

\* C13: when the named lock is permanently held, lockFile fails with the
\* timeout error later than maxRetryDuration after its first attempt and no
\* more than a small margin after that; whoever holds the lock, it never
\* reports the timeout while the elapsed time is at or below
\* maxRetryDuration.
C13_RetryBound ==
    lpc = "timeout" =>
        /\ Total > maxRetryDuration
        /\ PermanentlyHeld => Total <= maxRetryDuration + Margin

\* The timeout is reported one tick after the deadline, the lock being held
\* for good.
C13_Witness ==
    /\ lpc = "timeout"
    /\ holder = "blocking"
    /\ Total = maxRetryDuration + 1

(***************************************************************************)
(* lockNameFromPath alone: it is called up to MaxCalls times on one path   *)
(* and what it returned is kept in nm.results.                             *)
(***************************************************************************)
InitName ==
    /\ CoreIdle({})
    /\ clock = 0 /\ startTime = 0 /\ retry = 0
    /\ lpc = "off" /\ holder = None
    /\ \E p \in NamePaths : nm = [stage |-> "on", path |-> p, results |-> << >>]
    /\ ser = << >>

\* name, err := lockNameFromPath(path)
NameCall ==
    /\ nm.stage = "on"
    /\ Len(nm.results) < MaxCalls
    /\ nm' = [nm EXCEPT !.results = Append(@, lockNameFromPath(nm.path))]
    /\ UNCHANGED <<core, clock, startTime, retry, lpc, holder, ser>>

NextName == NameCall

SpecName == InitName /\ [][NextName]_vars

\* The bytes of a multi-byte character after its first.
ContinuationBytes == {"A9"}

\* The last n bytes of a path, the whole path when it has n bytes or fewer.
LastBytes(path, n) ==
    LET k == IF Len(path) > n THEN n ELSE Len(path)
    IN  [i \in 1..k |-> path[Len(path) - k + i]]

\* The last n characters of a path, the whole path when it has n characters
\* or fewer.
LastChars(path, n) ==
    LET starts == {i \in 1..Len(path) : path[i] \notin ContinuationBytes}
    IN  IF Cardinality(starts) <= n THEN path
        ELSE LET from == CHOOSE i \in starts :
                             Cardinality({k \in starts : k >= i}) = n
             IN  [i \in 1..(Len(path) - from + 1) |-> path[from + i - 1]]

IsAlphaNum(c) == c \in AlphaNum

\* L, the first 29 characters of the base64 of the hash and the given end of
\* the path, the characters that are not alphanumeric removed.
NameFrom(path, end) ==
    SelectSeq(<<"L">> \o SubSeq(Sha256Base64(path), 1, 29) \o end, IsAlphaNum)

\* What C14 says of every call but the end of the path that is taken.
NameContract(end(_)) ==
    \A i \in 1..Len(nm.results) :
        LET r == nm.results[i]
        IN  IF nm.path = EmptyPath
            THEN r.err # None /\ r.name = << >>
            ELSE /\ r.err = None
                 /\ r.name # << >>
                 /\ Head(r.name) = "L"
                 /\ \A k \in 1..Len(r.name) : r.name[k] \in AlphaNum
                 /\ r.name = NameFrom(nm.path, end(nm.path))
                 /\ r = nm.results[1]

Last10Chars(path) == LastChars(path, 10)

Last10Bytes(path) == LastBytes(path, 10)

\* C14 as stated: the name ends with the last 10 characters of the path (the
\* whole path when it has 10 characters or fewer).  Violated by a path of 8
\* characters and 13 bytes: the code takes its last 10 bytes.
C14_LockNameAsStated == nm.stage = "on" => NameContract(Last10Chars)

\* C14: for every non-empty path lockNameFromPath returns a non-empty name
\* that begins with L, has only characters of [A-Za-z0-9], equals L + the
\* first 29 characters of the base64 of the path hash + the last 10 bytes of
\* the path (the whole path when it has 10 bytes or fewer) with the
\* non-alphanumeric characters removed, and is the same on every call; for
\* the empty path it returns an error and no name.
C14_LockName == nm.stage = "on" => NameContract(Last10Bytes)

\* Called twice on a path of more than 10 bytes whose last 10 bytes hold
\* characters that are removed.
C14_Witness ==
    /\ nm.stage = "on"
    /\ Len(nm.results) = 2
    /\ Len(nm.path) > 10
    /\ Len(nm.results[1].name) < 30 + 10
    /\ Last10Chars(nm.path) # Last10Bytes(nm.path)

(***************************************************************************)
(* The calls of Save and Load again (Spec): the order of what is written   *)
(* and the order of the steps.                                             *)
(***************************************************************************)
\* In a list of entries every entry and the next are in order: the canonical
\* host of the first is not after that of the second, and for the same host
\* the path of the first is not longer.
AdjacentInOrder(es) ==
    \A i \in 1..(Len(es) - 1) :
        \/ HostRank(es[i].CanonicalHost) < HostRank(es[i + 1].CanonicalHost)
        \/ /\ es[i].CanonicalHost = es[i + 1].CanonicalHost
           /\ Len(es[i].Path) <= Len(es[i + 1].Path)

\* C15: in the list of entries that Save writes, of every two adjacent
\* entries the canonical host of the first is less than or equal to that of
\* the second, and for equal hosts the path of the first is no longer than
\* the path of the second.
C15_SerializationOrder ==
    \A t \in Threads : Written(t) => AdjacentInOrder(file.data)

\* A save has written two entries of one host with paths of different lengths
\* and an entry of another host.
C15_Witness ==
    \E t \in Threads :
        /\ Written(t)
        /\ Len(file.data) = 3
        /\ file.data[1].CanonicalHost = file.data[2].CanonicalHost
        /\ Len(file.data[1].Path) < Len(file.data[2].Path)
        /\ file.data[2].CanonicalHost # file.data[3].CanonicalHost

\* The file as a save finds it once opened: what it was when the named lock
\* was acquired, created empty when it was missing.
Opened(t) == IF atLock[t].kind = "absent" THEN Empty ELSE atLock[t]

\* C16: the file is not truncated at open; in every save the truncate comes
\* only after the contents of the file have been read for the merge and the
\* expired entries have been purged, the write only after the truncate and
\* the rewind, and truncate and write both happen while the caller holds the
\* named lock and j.mu.
C16_StepOrdering ==
    \A t \in Threads :
        op[t] = "save" =>
            /\ pc[t] \in {"muLock", "merge", "expire", "truncate"} =>
                   file = Opened(t)
            /\ pc[t] = "truncate" =>
                   /\ readKind[t] = file.kind
                   /\ file.kind = "array" => Range(merged[t]) = FileEntries
                   /\ \A e \in entries[ProcOf(t)] : Unexpired(e, now[t])
            /\ pc[t] \in {"seek", "write"} =>
                   /\ file = Empty
                   /\ readKind[t] = Opened(t).kind
            /\ pc[t] \in {"truncate", "seek", "write"} =>
                   /\ locks[NameOf(t)] = t
                   /\ mu[ProcOf(t)] = t

\* A save is about to write: it found entries in the file, merged them,
\* purged an expired entry and truncated the file.
C16_Witness ==
    \E t \in Threads :
        /\ op[t] = "save" /\ pc[t] = "write"
        /\ atLock[t].kind = "array"
        /\ Range(merged[t]) = Range(atLock[t].data)
        /\ afterMerge[t] # entries[ProcOf(t)]
        /\ file = Empty

\* C18: every save takes the named lock before j.mu and gives them back in
\* the reverse order, and every call made can still return, with success or
\* with an error: no caller is left waiting for ever.  The code does not
\* keep the second part: load merges without j.mu (C4), the Go runtime may
\* end the process on the concurrent map access, and the calls that were
\* running in that process never return.
C18_DeadlockFreedom ==
    \A t \in Threads :
        /\ (op[t] = "save" /\ mu[ProcOf(t)] = t) => locks[NameOf(t)] = t
        /\ pc[t] # "crashed"

\* The two calls running in p1 are cut off with their process: its load
\* merged while its SetCookies held j.mu.
C18_CutOff ==
    /\ \A t \in {"t1", "t2"} : pc[t] = "crashed"
    /\ nops = 2

\* Goroutine t takes a step of a save.
SaveStep(t) ==
    /\ op'[t] = "save"
    /\ pc'[t] # pc[t] \/ err'[t] # err[t] \/ op'[t] # op[t]

\* The steps of a save that fails early: the call itself (where an empty path
\* fails it), lockFile (where the timeout fails it), the failed open and the
\* release that follows it.
EarlyStep(t) ==
    /\ SaveStep(t)
    /\ \/ pc[t] \in {"idle", "acquire"}
       \/ pc[t] = "open" /\ err'[t] = "open"
       \/ pc[t] = "release" /\ err[t] = "open"

\* The save has failed early.
FailedEarly(t) ==
    /\ op[t] = "save"
    /\ pc[t] \in {"idle", "release"}
    /\ err[t] \in {"invalid", "lock", "open"}

\* C19: when a save fails because the path is empty, the named lock is not
\* acquired within the timeout or the file cannot be opened, no step of it
\* changes the file or the Jar (no merge, no purge, no truncate, no write)
\* and none takes j.mu.
C19_EarlyFailure ==
    [][\A t \in Threads :
          /\ EarlyStep(t) =>
                 /\ file' = file
                 /\ entries' = entries
                 /\ mu' = mu
          /\ FailedEarly(t) =>
                 /\ mu[ProcOf(t)] # t
                 /\ readKind[t] = None
                 /\ merged[t] = << >>]_vars

\* A save of p1 could not open the file: the file is missing as before and
\* the Jar holds what it held.
C19_Witness ==
    /\ op["t1"] = "save" /\ pc["t1"] = "release" /\ err["t1"] = "open"
    /\ file = Absent
    /\ entries["p1"] = InitEntries["p1"]
    /\ mu["p1"] = None

\* The file holds the persistent entries of the saving Jar and the Jar holds
\* no entry that is expired at the instant of the save.
Agree(t) ==
    /\ FileEntries = {e \in entries[ProcOf(t)] : e.Persistent}
    /\ \A e \in entries[ProcOf(t)] : Unexpired(e, now[t])

\* The unexpired entries that were in the file when the save took the named
\* lock: what other callers had written.
FoundUnexpired(t) == {e \in Range(atLock[t].data) : Unexpired(e, now[t])}

\* C20 (as stated): right after a successful save(now) the entries in the
\* file are the persistent entries of the saving Jar, the Jar holds no entry
\* with expiry at or before now, and the Jar includes the unexpired entries
\* that others had written to the file.  Violated: the Jar held a newer entry
\* of the identity of one of them, which won the merge.
C20_AgreementAsStated ==
    \A t \in Threads :
        Written(t) =>
            /\ Agree(t)
            /\ FoundUnexpired(t) \subseteq entries[ProcOf(t)]

\* C20: right after a successful save(now) the entries in the file are the
\* persistent entries of the saving Jar and the Jar holds no entry with
\* expiry at or before now; of every unexpired entry that others had written
\* to the file the Jar holds that entry or, where another entry of its
\* identity won the merge, that winner unless it is expired at now.
C20_Agreement ==
    \A t \in Threads :
        Written(t) =>
            /\ Agree(t)
            /\ \A e \in FoundUnexpired(t) :
                   \/ e \in entries[ProcOf(t)]
                   \/ \E w \in afterMerge[t] :
                         /\ id(w) = id(e) /\ w # e
                         /\ w \in entries[ProcOf(t)] \/ ~Unexpired(w, now[t])

\* A save of p2 has written the file: its Jar took an entry from the file,
\* kept its own newer entry of the identity of another and lost an expired
\* entry.
C20_Witness ==
    /\ Written("t3")
    /\ Range(atLock["t3"].data) = {EX, EZ}
    /\ entries["p2"] = {EXS, EY, EZ}
    /\ FileEntries = {EY, EZ}

(***************************************************************************)
(* lockFile with the wall clock again (SpecLock): the sleeps.              *)
(***************************************************************************)
\* The deadline: maxRetryDuration after startTime.
Deadline == startTime + maxRetryDuration

\* An Acquire has failed with the elapsed time at or below maxRetryDuration
\* and lockFile has not slept yet: retry is the sleep it asks for.
AboutToSleep == lpc = "sleep"

\* What lockFile asks of a sleep: at most the time that remains until the
\* deadline, so that the sleep asked for does not end past the deadline, and
\* never more than the first retry interval.
SleepShrinks ==
    /\ 0 <= retry
    /\ retry <= Deadline - clock
    /\ clock + retry <= Deadline
    /\ retry <= initialRetry

\* C17: every sleep that lockFile asks for is at most the time remaining
\* until the deadline (startTime + maxRetryDuration), so no sleep asked for
\* ends past the deadline; the retry interval never grows; and after a failed
\* attempt with the elapsed time at or below maxRetryDuration lockFile does
\* not give up but sleeps and calls Acquire once more: the attempt after
\* which it gives up began no later than the deadline, but for the lateness
\* of the sleep before it.
C17_RetrySleep ==
    [][/\ AboutToSleep => SleepShrinks
       /\ lpc # "idle" => retry' <= retry
       /\ AboutToSleep => lpc' = "acquire"
       /\ lpc' = "timeout" =>
              /\ lpc = "acquire"
              /\ clock <= Deadline + MaxLatency]_vars

\* lockFile is about to sleep for no time at all: the deadline is reached and
\* one more attempt follows.
C17_Witness ==
    /\ AboutToSleep
    /\ clock = Deadline
    /\ retry = 0


====
